---- MODULE Spec2Model ----
(***************************************************************************)
(* Model of oracle-mcp's search-toggle probe (browser/actions/             *)
(* searchToggle.ts), the `session` command handler and the                 *)
(* oracle.browserQuery MCP tool handler.                                   *)
(*                                                                         *)
(* JavaScript strings are sequences of one-character strings, so that      *)
(* lower-casing, regex replacement, trimming and substring search are      *)
(* computed character by character as the engine does.                     *)
(***************************************************************************)
EXTENDS Integers, Sequences, FiniteSets, TLC

VARIABLES
    \* --- the page and one run of ensureSearchEnabled / the probe
    dom,        \* the document: sequence of elements in document order
    raise,      \* where (if anywhere) the page makes a DOM access throw, and what
    pc,         \* position of ensureSearchEnabled: "start" | "evaluated" | "returned"
    outcome,    \* what Runtime.evaluate resolved to
    best,       \* index in dom of the element the probe selected (0: none)
    clicked,    \* indices on which click() was called during the last probe run
    inspected,  \* indices whose on-state attributes were read by isOn
    domBefore,  \* the document as it was when the last probe run started
    escaped,    \* TRUE iff an exception left the evaluated script
    logged,     \* logger calls made by the current ensureSearchEnabled call
    \* --- normalizeText applied to one input
    nIn, nOut, nPc,
    \* --- the session command
    store,      \* persisted sessions: set of [id, age] (age in hours since lastUsedAt)
    storeBefore,\* the store when the last handleSessionCommand started
    sessArgs,   \* the arguments of the last handleSessionCommand
    calls,      \* calls the last handleSessionCommand made into its dependencies
    exitCode,   \* process.exitCode after the last handleSessionCommand
    stdout,     \* console.log lines of the last handleSessionCommand
    stderr,     \* console.error lines of the last handleSessionCommand
    \* --- the oracle.browserQuery tool handler
    qPc, qInput, qRequest, qResult, qResponse

probeVars == <<dom, raise, pc, outcome, best, clicked, inspected, domBefore, escaped, logged>>
normVars  == <<nIn, nOut, nPc>>
sessVars  == <<store, storeBefore, sessArgs, calls, exitCode, stdout, stderr>>
queryVars == <<qPc, qInput, qRequest, qResult, qResponse>>
vars == <<probeVars, normVars, sessVars, queryVars>>

(***************************************************************************)
(* Bounds                                                                  *)
(***************************************************************************)
MaxDom == 2        \* elements in the document
MaxLen == 3        \* length of the strings normalizeText is applied to
MaxHours == 2      \* --hours values and session ages range over 0..MaxHours
MaxFiles == 1      \* files attached to one browserQuery call

(***************************************************************************)
(* JavaScript values                                                       *)
(***************************************************************************)
Undefined == [t |-> "undefined", v |-> <<>>]
Null      == [t |-> "null", v |-> <<>>]
Str(s)    == [t |-> "string", v |-> s]
\* ToBoolean on undefined, null and strings
Truthy(x) == x.t = "string" /\ x.v # <<>>
\* a || b
Or(a, b) == IF Truthy(a) THEN a ELSE b

(***************************************************************************)
(* Characters                                                              *)
(***************************************************************************)
UpperCase == <<"A","B","C","D","E","F","G","H","I","J","K","L","M",
               "N","O","P","Q","R","S","T","U","V","W","X","Y","Z">>
LowerCase == <<"a","b","c","d","e","f","g","h","i","j","k","l","m",
               "n","o","p","q","r","s","t","u","v","w","x","y","z">>
Digits == {"0","1","2","3","4","5","6","7","8","9"}
\* the regex class \s, and what String.prototype.trim strips
WhiteSpace == {" ", "\t", "\n"}

Range(f) == {f[i] : i \in DOMAIN f}
\* [a-z0-9]
IsAlnum(c) == c \in Range(LowerCase) \/ c \in Digits
IsSpace(c) == c \in WhiteSpace

\* the characters strings are built from
Chars == Range(UpperCase) \cup Range(LowerCase) \cup Digits \cup WhiteSpace
            \cup {"-", "_", "!", "É", "é"}

\* String.prototype.toLowerCase, character by character
LowerChar == [c \in Chars |->
    IF c \in Range(UpperCase)
    THEN LowerCase[CHOOSE i \in DOMAIN UpperCase : UpperCase[i] = c]
    ELSE IF c = "É" THEN "é" ELSE c]

toLowerCase(s) == [i \in DOMAIN s |-> LowerChar[s[i]]]

\* s.replace(/<class>+/g, ' '): every maximal run of characters of the class
\* becomes one space
RECURSIVE ReplaceRuns(_, _)
ReplaceRuns(s, inClass) ==
    IF s = <<>> THEN <<>>
    ELSE IF inClass[Head(s)]
         THEN IF Len(s) > 1 /\ inClass[s[2]]
              THEN ReplaceRuns(Tail(s), inClass)
              ELSE <<" ">> \o ReplaceRuns(Tail(s), inClass)
         ELSE <<Head(s)>> \o ReplaceRuns(Tail(s), inClass)

RECURSIVE TrimStart(_)
TrimStart(s) == IF s # <<>> /\ IsSpace(Head(s)) THEN TrimStart(Tail(s)) ELSE s
RECURSIVE TrimEnd(_)
TrimEnd(s) ==
    IF s # <<>> /\ IsSpace(s[Len(s)]) THEN TrimEnd(SubSeq(s, 1, Len(s) - 1)) ELSE s
\* String.prototype.trim
trim(s) == TrimEnd(TrimStart(s))

\* String.prototype.includes
includes(h, k) ==
    \E i \in 0..(Len(h) - Len(k)) : SubSeq(h, i + 1, i + Len(k)) = k

NotAlnumClass == [c \in Chars |-> ~IsAlnum(c)]
SpaceClass    == [c \in Chars |-> IsSpace(c)]

\* faulty variant: normalizeText without the final trim()
normalizeTextNoTrim(value) ==
    IF value = <<>> THEN <<>>
    ELSE ReplaceRuns(ReplaceRuns(toLowerCase(value), NotAlnumClass), SpaceClass)
\* normalizeText(value), value a string
normalizeText(value) ==
    IF value = <<>> THEN <<>>
    ELSE trim(ReplaceRuns(ReplaceRuns(toLowerCase(value), NotAlnumClass), SpaceClass))

KEYWORDS == << <<"s","e","a","r","c","h">>,
               <<"w","e","b"," ","s","e","a","r","c","h">>,
               <<"b","r","o","w","s","e">>,
               <<"b","r","o","w","s","i","n","g">> >>
(***************************************************************************)
(* The document.  An element carries what the probe can observe of it:     *)
(* its tag, whether it is an HTMLElement (an <svg> is an Element but not   *)
(* an HTMLElement), its textContent and the attributes the probe reads     *)
(* (Null when the attribute is absent, as getAttribute returns).           *)
(***************************************************************************)
sSearch    == <<"S","e","a","r","c","h">>
sWebSearch == <<"W","e","b","-","S","e","a","r","c","h","!">>
sBrowse    == <<" ","B","r","o","w","s","e"," ">>
sResearch  == <<"R","E","S","E","A","R","C","H">>
sSend      == <<"S","e","n","d">>
sTestId    == <<"s","e","a","r","c","h","_","t","o","g","g","l","e">>
sBlank     == <<" ">>
sTrue      == <<"t","r","u","e">>
sFalse     == <<"f","a","l","s","e">>
sON        == <<"O","N">>
sOff       == <<"o","f","f">>
sActive    == <<"A","c","t","i","v","e">>
sSwitch    == <<"s","w","i","t","c","h">>

El(tag, html, text, role, ariaLabel, testId, ariaPressed, ariaChecked, dataState) ==
    [tag |-> tag, html |-> html, textContent |-> text, role |-> role,
     ariaLabel |-> ariaLabel, testId |-> testId, ariaPressed |-> ariaPressed,
     ariaChecked |-> ariaChecked, dataState |-> dataState]

\* the elements documents are built from
Elements == {
    \* <button>Search</button>
    El("button", TRUE, sSearch, Null, Null, Null, Null, Null, Null),
    \* <button aria-pressed="true">Search</button>
    El("button", TRUE, sSearch, Null, Null, Null, Str(sTrue), Null, Null),
    \* <button>Send</button>
    El("button", TRUE, sSend, Null, Null, Null, Null, Null, Null),
    \* <button aria-label=" " aria-pressed="false">Search</button>
    El("button", TRUE, sSearch, Null, Str(sBlank), Null, Str(sFalse), Null, Null),
    \* <button data-state="Active"> Browse </button>
    El("button", TRUE, sBrowse, Null, Null, Null, Null, Null, Str(sActive)),
    \* <button aria-label="" data-testid=""></button>
    El("button", TRUE, <<>>, Null, Str(<<>>), Str(<<>>), Null, Null, Null),
    \* <div role="switch" aria-label="Web-Search!" aria-checked="true"></div>
    El("div", TRUE, <<>>, Str(sSwitch), Str(sWebSearch), Null, Null, Str(sTrue), Null),
    \* <div role="switch" aria-label="Web-Search!" aria-checked="false"></div>
    El("div", TRUE, <<>>, Str(sSwitch), Str(sWebSearch), Null, Null, Str(sFalse), Null),
    \* <div data-testid="search_toggle" data-state="ON"> </div>
    El("div", TRUE, sBlank, Null, Null, Str(sTestId), Null, Null, Str(sON)),
    \* <div data-testid="search_toggle" data-state="off"> </div>
    El("div", TRUE, sBlank, Null, Null, Str(sTestId), Null, Null, Str(sOff)),
    \* <div aria-pressed="false">RESEARCH</div>
    El("div", TRUE, sResearch, Null, Null, Null, Str(sFalse), Null, Null),
    \* <div>Search</div>: matched by no selector
    El("div", TRUE, sSearch, Null, Null, Null, Null, Null, Null),
    \* <svg data-testid="search_toggle" aria-pressed="true"></svg>
    El("svg", FALSE, <<>>, Null, Null, Str(sTestId), Str(sTrue), Null, Null)
  }

RECURSIVE SeqsUpTo(_, _)
SeqsUpTo(S, n) ==
    IF n = 0 THEN {<<>>}
    ELSE LET shorter == SeqsUpTo(S, n - 1)
         IN  shorter \cup {Append(q, x) : q \in shorter, x \in S}

Documents == SeqsUpTo(Elements, MaxDom)

SELECTORS == <<"button", "[role=\"switch\"]", "[data-testid]", "[aria-pressed]",
               "[aria-checked]">>

\* Element.matches(selector)
Matches(el, selector) ==
    CASE selector = "button" -> el.tag = "button"
      [] selector = "[role=\"switch\"]" -> el.role = Str(sSwitch)
      [] selector = "[data-testid]" -> el.testId # Null
      [] selector = "[aria-pressed]" -> el.ariaPressed # Null
      [] selector = "[aria-checked]" -> el.ariaChecked # Null

\* document.querySelectorAll(selector): the matching indices, in document order
RECURSIVE querySelectorAllFrom(_, _, _)
querySelectorAllFrom(d, selector, i) ==
    IF i > Len(d) THEN <<>>
    ELSE (IF Matches(d[i], selector) THEN <<i>> ELSE <<>>)
            \o querySelectorAllFrom(d, selector, i + 1)
querySelectorAll(d, selector) == querySelectorAllFrom(d, selector, 1)

\* Set.prototype.add over a sequence: insertion order, an element already
\* present keeps its place
RECURSIVE AddAll(_, _)
AddAll(set, xs) ==
    IF xs = <<>> THEN set
    ELSE AddAll(IF Head(xs) \in Range(set) THEN set ELSE Append(set, Head(xs)), Tail(xs))

\* the candidates Set after the loop over SELECTORS, in iteration order
RECURSIVE CollectCandidates(_, _, _)
CollectCandidates(d, k, set) ==
    IF k > Len(SELECTORS) THEN set
    ELSE CollectCandidates(d, k + 1, AddAll(set, querySelectorAll(d, SELECTORS[k])))
Candidates(d) == CollectCandidates(d, 1, <<>>)

\* node.getAttribute(name) || ''
AttrOrEmpty(a) == Or(a, Str(<<>>)).v

\* the haystack the loop builds for one node
Haystack(el) ==
    normalizeText(el.textContent) \o <<" ">> \o normalizeText(AttrOrEmpty(el.ariaLabel))
        \o <<" ">> \o normalizeText(AttrOrEmpty(el.testId))

\* KEYWORDS.some((kw) => haystack.includes(normalizeText(kw)))
MatchesKeyword(haystack) ==
    \E k \in DOMAIN KEYWORDS : includes(haystack, normalizeText(KEYWORDS[k]))

ON_STATES == {<<"o","n">>, sTrue, <<"c","h","e","c","k","e","d">>,
              <<"s","e","l","e","c","t","e","d">>, <<"a","c","t","i","v","e">>}

\* isOn(el)
isOn(el) ==
    IF ~el.html THEN FALSE
    ELSE LET dataState == toLowerCase(AttrOrEmpty(el.dataState))
         IN  IF el.ariaPressed = Str(sTrue) \/ el.ariaChecked = Str(sTrue) THEN TRUE
             ELSE IF dataState \in ON_STATES THEN TRUE
             ELSE FALSE

\* getLabel(el)
getLabel(el) ==
    IF ~el.html THEN <<>>
    ELSE LET ariaLabel == Str(AttrOrEmpty(el.ariaLabel))
             testId    == Str(AttrOrEmpty(el.testId))
             text      == Str(el.textContent)
         IN  trim(Or(ariaLabel, Or(text, testId)).v)
(***************************************************************************)
(* The probe: the script buildSearchToggleExpression returns, run in the   *)
(* page.  A DOM access may throw when the page has replaced it: raise.at   *)
(* names the access that throws ("none" in a standard DOM) and             *)
(* raise.thrown the value thrown.                                          *)
(***************************************************************************)
sBoom   == <<"b","o","o","m">>
sDenied == <<"d","e","n","i","e","d">>
\* thrown values: an Error with a message, an Error with an empty message,
\* and a value that is no Error (a thrown string)
ThrownValues == { [isError |-> TRUE, message |-> sBoom, string |-> <<"E","r","r","o","r">>],
                  [isError |-> TRUE, message |-> <<>>, string |-> <<"E","r","r","o","r">>],
                  [isError |-> FALSE, message |-> <<>>, string |-> sDenied] }
NoThrow == [at |-> "none", thrown |-> [isError |-> FALSE, message |-> <<>>, string |-> <<>>]]
RaisePoints == {"query", "read", "label", "state", "click"}
Raises == {NoThrow} \cup [at : RaisePoints, thrown : ThrownValues]

\* the values a probe run can return (SearchToggleResult)
Result(status, label, message) ==
    [t |-> "object", status |-> status, label |-> label, message |-> message]

\* the state of one run of the script body: completed with a value, or threw
Completed(value, b, clk, insp) ==
    [threw |-> FALSE, thrown |-> NoThrow.thrown, value |-> value,
     best |-> b, clicked |-> clk, inspected |-> insp]
Threw(r, b, clk, insp) ==
    [threw |-> TRUE, thrown |-> r.thrown, value |-> Result("undefined", Undefined, Undefined),
     best |-> b, clicked |-> clk, inspected |-> insp]

\* faulty variant: the loop without its `break` (the last match wins)
RECURSIVE FindBestLast(_, _, _, _, _)
FindBestLast(d, cands, k, r, found) ==
    IF k > Len(cands) THEN found
    ELSE LET node == d[cands[k]]
         IN  IF ~node.html THEN FindBestLast(d, cands, k + 1, r, found)
             ELSE IF r.at = "read" THEN -1
             ELSE IF Haystack(node) = <<>> THEN FindBestLast(d, cands, k + 1, r, found)
             ELSE IF MatchesKeyword(Haystack(node))
                  THEN FindBestLast(d, cands, k + 1, r, cands[k])
                  ELSE FindBestLast(d, cands, k + 1, r, found)
FindBestNoBreak(d, cands, k, r) == FindBestLast(d, cands, k, r, 0)
\* the loop `for (const node of candidates)`: the index of the first
\* HTMLElement whose haystack contains a keyword, 0 when there is none
\* (best = null), -1 when reading a node threw
RECURSIVE FindBest(_, _, _, _)
FindBest(d, cands, k, r) ==
    IF k > Len(cands) THEN 0
    ELSE LET node == d[cands[k]]
         IN  IF ~node.html THEN FindBest(d, cands, k + 1, r)
             ELSE IF r.at = "read" THEN -1
             ELSE IF Haystack(node) = <<>> THEN FindBest(d, cands, k + 1, r)
             ELSE IF MatchesKeyword(Haystack(node)) THEN cands[k]
             ELSE FindBest(d, cands, k + 1, r)

\* faulty variant: the click without the isOn test
DecideClickAlways(d, r, b) ==
    IF r.at = "label" THEN Threw(r, b, <<>>, {})
    ELSE IF r.at = "click" THEN Threw(r, b, <<b>>, {b})
    ELSE Completed(Result("toggled-on", Str(getLabel(d[b])), Undefined), b, <<b>>, {b})
\* what follows the loop, once an element is selected
Decide(d, r, b) ==
    IF r.at = "label" THEN Threw(r, b, <<>>, {})
    ELSE IF r.at = "state" THEN Threw(r, b, <<>>, {b})
    ELSE IF isOn(d[b])
         THEN Completed(Result("already-on", Str(getLabel(d[b])), Undefined), b, <<>>, {b})
    ELSE IF r.at = "click" THEN Threw(r, b, <<b>>, {b})
    ELSE Completed(Result("toggled-on", Str(getLabel(d[b])), Undefined), b, <<b>>, {b})

\* faulty variant: best falls back to the first candidate
TryBodyDefaultFirst(d, r) ==
    IF r.at = "query" THEN Threw(r, 0, <<>>, {})
    ELSE LET cands == Candidates(d)
             b == FindBest(d, cands, 1, r)
         IN  IF b = -1 THEN Threw(r, 0, <<>>, {})
             ELSE IF b = 0
                  THEN IF cands = <<>>
                       THEN Completed(Result("not-found", Undefined, Undefined), 0, <<>>, {})
                       ELSE Decide(d, r, cands[1])
             ELSE Decide(d, r, b)
\* the body of the try block
TryBody(d, r) ==
    IF r.at = "query" THEN Threw(r, 0, <<>>, {})
    ELSE LET b == FindBest(d, Candidates(d), 1, r)
         IN  IF b = -1 THEN Threw(r, 0, <<>>, {})
             ELSE IF b = 0
                  THEN Completed(Result("not-found", Undefined, Undefined), 0, <<>>, {})
             ELSE Decide(d, r, b)

\* catch (error): error instanceof Error ? error.message : String(error)
CatchMessage(e) == IF e.isError THEN e.message ELSE e.string

\* faulty variant: no catch clause
TryCatchRethrow(run) == [run EXCEPT !.threw = FALSE] @@ [escaped |-> run.threw]
\* try { ... } catch (error) { return { status: 'error', message } }
\* escaped: the exception left the script instead of being returned
TryCatch(run) ==
    IF run.threw
    THEN [run EXCEPT !.threw = FALSE,
                     !.value = Result("error", Undefined, Str(CatchMessage(run.thrown)))]
            @@ [escaped |-> FALSE]
    ELSE run @@ [escaped |-> FALSE]

\* one run of the script in document d
SearchToggleProbe(d, r) == TryCatch(TryBody(d, r))
(***************************************************************************)
(* ensureSearchEnabled                                                     *)
(***************************************************************************)
\* outcome of Runtime.evaluate: result may be missing, result.value is the
\* script's value returned by value
Outcome(hasResult, value) == [hasResult |-> hasResult, value |-> value]
NoValue == Result("undefined", Undefined, Undefined)
NoOutcome == Outcome(FALSE, NoValue)

\* what the page may do with a click on element i: nothing, or mark it pressed
ClickEffects(d, clk) ==
    IF clk = <<>> THEN {d}
    ELSE {d, [d EXCEPT ![clk[1]].ariaPressed = Str(sTrue)]}

\* idle values of the variables an action does not concern
NormIdle  == nIn = <<>> /\ nOut = <<>> /\ nPc = "idle"
SessIdle  == /\ store = {} /\ storeBefore = {} /\ sessArgs = <<>> /\ calls = <<>>
             /\ exitCode = 0 /\ stdout = <<>> /\ stderr = <<>>
QueryIdle == /\ qPc = "idle" /\ qInput = <<>> /\ qRequest = <<>> /\ qResult = <<>>
             /\ qResponse = <<>>
ProbeIdle == /\ dom = <<>> /\ raise = NoThrow /\ pc = "idle" /\ outcome = NoOutcome
             /\ best = 0 /\ clicked = <<>> /\ inspected = {} /\ domBefore = <<>>
             /\ escaped = FALSE /\ logged = <<>>

\* a page, before ensureSearchEnabled is called on it
InitPage(raises) ==
    /\ dom \in Documents
    /\ raise \in raises
    /\ pc = "start"
    /\ outcome = NoOutcome
    /\ best = 0 /\ clicked = <<>> /\ inspected = {}
    /\ domBefore = dom
    /\ escaped = FALSE
    /\ logged = <<>>

\* await Runtime.evaluate({expression: buildSearchToggleExpression(), ...}):
\* the script runs in the page and its value comes back by value.  When the
\* script throws, the protocol reports exceptionDetails and no value.
Evaluate ==
    /\ pc \in {"start", "returned"}
    /\ \E run \in {SearchToggleProbe(dom, raise)} :
           /\ outcome' = Outcome(TRUE, IF run.escaped THEN NoValue ELSE run.value)
           /\ best' = run.best
           /\ clicked' = run.clicked
           /\ inspected' = run.inspected
           /\ escaped' = run.escaped
           /\ dom' \in ClickEffects(dom, run.clicked)
    /\ domBefore' = dom
    /\ logged' = <<>>
    /\ pc' = "evaluated"
    /\ UNCHANGED <<raise, normVars, sessVars, queryVars>>

\* result?.status
StatusOf(o) ==
    IF ~o.hasResult \/ o.value.t # "object" THEN "undefined" ELSE o.value.status
\* result.label / result?.message
LabelOf(o) == IF ~o.hasResult \/ o.value.t # "object" THEN Undefined ELSE o.value.label
MessageOf(o) == IF ~o.hasResult \/ o.value.t # "object" THEN Undefined ELSE o.value.message

Line(text, arg) == [text |-> text, arg |-> arg]

\* faulty variant: the switch without its default branch
SwitchNoDefault(o) ==
    CASE StatusOf(o) = "already-on" ->
            IF Truthy(LabelOf(o))
            THEN <<Line("Search toggle already on (%s).", LabelOf(o).v)>>
            ELSE <<Line("Search toggle already on.", <<>>)>>
      [] StatusOf(o) = "toggled-on" ->
            IF Truthy(LabelOf(o))
            THEN <<Line("Search toggle enabled (%s).", LabelOf(o).v)>>
            ELSE <<Line("Search toggle enabled.", <<>>)>>
      [] StatusOf(o) = "not-found" ->
            <<Line("Search toggle not found in ChatGPT UI; continuing without forcing search.", <<>>)>>
      [] StatusOf(o) = "error" ->
            IF Truthy(MessageOf(o))
            THEN <<Line("Search toggle error: %s; continuing without forcing search.",
                        MessageOf(o).v)>>
            ELSE <<Line("Search toggle error; continuing without forcing search.", <<>>)>>
      [] OTHER -> <<>>
\* the switch statement: the logger calls it makes
Switch(o) ==
    CASE StatusOf(o) = "already-on" ->
            IF Truthy(LabelOf(o))
            THEN <<Line("Search toggle already on (%s).", LabelOf(o).v)>>
            ELSE <<Line("Search toggle already on.", <<>>)>>
      [] StatusOf(o) = "toggled-on" ->
            IF Truthy(LabelOf(o))
            THEN <<Line("Search toggle enabled (%s).", LabelOf(o).v)>>
            ELSE <<Line("Search toggle enabled.", <<>>)>>
      [] StatusOf(o) = "not-found" ->
            <<Line("Search toggle not found in ChatGPT UI; continuing without forcing search.", <<>>)>>
      [] OTHER ->
            IF Truthy(MessageOf(o))
            THEN <<Line("Search toggle error: %s; continuing without forcing search.",
                        MessageOf(o).v)>>
            ELSE <<Line("Search toggle error; continuing without forcing search.", <<>>)>>

\* the rest of ensureSearchEnabled after the await
LogOutcome ==
    /\ pc = "evaluated"
    /\ logged' = logged \o Switch(outcome)
    /\ pc' = "returned"
    /\ UNCHANGED <<dom, raise, outcome, best, clicked, inspected, domBefore, escaped,
                   normVars, sessVars, queryVars>>

\* ensureSearchEnabled on a page with a standard DOM
Init == InitPage({NoThrow}) /\ NormIdle /\ SessIdle /\ QueryIdle
Next == Evaluate \/ LogOutcome
Spec == Init /\ [][Next]_vars

\* ensureSearchEnabled on a page whose DOM accesses may throw
InitThrow == InitPage(Raises) /\ NormIdle /\ SessIdle /\ QueryIdle
SpecThrow == InitThrow /\ [][Next]_vars
\* Runtime.evaluate as ensureSearchEnabled's type sees it: any outcome, with or
\* without a result, whose value may be undefined, null, or an object with
\* any status, label and message
Statuses == {"already-on", "toggled-on", "not-found", "error", "bogus", "undefined"}
Labels   == {Undefined, Null, Str(<<>>), Str(sSearch)}
Messages == {Undefined, Str(<<>>), Str(sBoom)}
Outcomes ==
    {NoOutcome, Outcome(TRUE, NoValue),
     Outcome(TRUE, [t |-> "null", status |-> "undefined", label |-> Undefined,
                    message |-> Undefined])}
    \cup {Outcome(TRUE, Result(st, l, m)) : st \in Statuses, l \in Labels, m \in Messages}

\* await Runtime.evaluate(...) resolving to an arbitrary outcome
EvaluateAny ==
    /\ pc \in {"start", "returned"}
    /\ outcome' \in Outcomes
    /\ logged' = <<>>
    /\ pc' = "evaluated"
    /\ UNCHANGED <<dom, raise, best, clicked, inspected, domBefore, escaped,
                   normVars, sessVars, queryVars>>

InitEnsure ==
    /\ dom = <<>> /\ raise = NoThrow /\ pc = "start" /\ outcome = NoOutcome
    /\ best = 0 /\ clicked = <<>> /\ inspected = {} /\ domBefore = <<>>
    /\ escaped = FALSE /\ logged = <<>>
    /\ NormIdle /\ SessIdle /\ QueryIdle
NextEnsure == EvaluateAny \/ LogOutcome
SpecEnsure == InitEnsure /\ [][NextEnsure]_vars

(***************************************************************************)
(* normalizeText on its own                                                *)
(***************************************************************************)
NormChars == {"a", "Z", "7", " ", "-", "\n", "É"}
NormInputs ==
    SeqsUpTo(NormChars, MaxLen) \cup Range(KEYWORDS)
        \cup {sSearch, sWebSearch, sBrowse, sResearch, sTestId, sBlank}

InitNormalize ==
    /\ nIn \in NormInputs /\ nOut = <<>> /\ nPc = "input"
    /\ ProbeIdle /\ SessIdle /\ QueryIdle

\* normalizeText(value)
Normalize ==
    /\ nPc = "input"
    /\ nOut' = normalizeText(nIn)
    /\ nPc' = "normalized"
    /\ UNCHANGED <<nIn, probeVars, sessVars, queryVars>>

\* normalizeText applied to its own result
Renormalize ==
    /\ nPc = "normalized"
    /\ nIn' = nOut
    /\ nOut' = normalizeText(nOut)
    /\ nPc' = "renormalized"
    /\ UNCHANGED <<probeVars, sessVars, queryVars>>

NextNormalize == Normalize \/ Renormalize
SpecNormalize == InitNormalize /\ [][NextNormalize]_vars
(***************************************************************************)
(* The session command                                                     *)
(***************************************************************************)
sClear == <<"c","l","e","a","r">>
sClean == <<"c","l","e","a","n">>
sId    == <<"s","1">>

\* a JavaScript number of hours: finite, or Infinity
Hours(n) == [inf |-> FALSE, n |-> n]
Infinity == [inf |-> TRUE, n |-> 0]

\* the persisted sessions: at most one per id, each with its age in hours
SessionIds == {"s1", "s2"}
Ages == 0..(MaxHours + 1)
Stores ==
    {st \in SUBSET [id : SessionIds, age : Ages] :
        \A a, b \in st : a.id = b.id => a = b}

\* the positional argument and command.opts(); an optional flag is "undefined"
\* when it was not given
SessionIdArgs == {Undefined, Str(<<>>), Str(sClear), Str(sClean), Str(sId)}
Flags == {"undefined", "true", "false"}
StatusOptions ==
    [hours : 0..MaxHours, limit : 1..2, all : BOOLEAN, clear : Flags, clean : Flags]

\* deleteSessionsOlderThan({hours, includeAll}) of sessionManager: what is
\* left of the store and how many sessions were removed
deleteSessionsOlderThan(st, hours, includeAll) ==
    LET kept == IF includeAll THEN {} ELSE {x \in st : x.age <= hours}
    IN  [store |-> kept, deleted |-> Cardinality(st) - Cardinality(kept)]

\* a call into the dependencies, with the arguments it was given
Call(fn, hours, includeAll, limit, showExamples, sessionId) ==
    [fn |-> fn, hours |-> hours, includeAll |-> includeAll, limit |-> limit,
     showExamples |-> showExamples, sessionId |-> sessionId]

\* Boolean(sessionOptions.clear || sessionOptions.clean)
clearRequested(opts) == opts.clear = "true" \/ opts.clean = "true"

\* faulty variant: includeAll always set
ClearArgsAll(opts) == [hours |-> opts.hours, includeAll |-> TRUE]
\* the argument of deps.deleteSessionsOlderThan
ClearArgs(opts) == [hours |-> opts.hours, includeAll |-> opts.all]

\* the argument of deps.showStatus
StatusArgs(opts, showExamples) ==
    Call("showStatus", IF opts.all THEN Infinity ELSE Hours(opts.hours), opts.all,
         opts.limit, showExamples, Undefined)

\* console.log(`Deleted ${result.deleted} ${noun} (${scope}).`)
DeletedLine(deleted, args) ==
    [text |-> "Deleted %d %s (%s).", deleted |-> deleted,
     noun |-> IF deleted = 1 THEN "session" ELSE "sessions",
     scope |-> IF args.includeAll THEN "all stored sessions"
               ELSE "sessions older than %dh",
     hours |-> IF args.includeAll THEN 0 ELSE args.hours]

Effects(c, code, out, err, st) ==
    [calls |-> c, exitCode |-> code, stdout |-> out, stderr |-> err, store |-> st]

\* the --clear branch once no session ID stands in the way
ClearSessions(opts, st) ==
    LET args == ClearArgs(opts)
        result == deleteSessionsOlderThan(st, args.hours, args.includeAll)
    IN  Effects(<<Call("deleteSessionsOlderThan", Hours(args.hours), args.includeAll,
                       0, FALSE, Undefined)>>,
                0, <<DeletedLine(result.deleted, args)>>, <<>>, result.store)

\* faulty variant: the handler without its two session-ID guards
HandleSessionIgnoringId(sessionId, opts, showExamples, st) ==
    IF clearRequested(opts) THEN ClearSessions(opts, st)
    ELSE IF ~Truthy(sessionId)
         THEN Effects(<<StatusArgs(opts, showExamples)>>, 0, <<>>, <<>>, st)
    ELSE Effects(<<Call("attachSession", Hours(0), FALSE, 0, FALSE, sessionId)>>,
                 0, <<>>, <<>>, st)
\* handleSessionCommand(sessionId, command, deps) in a fresh process
HandleSession(sessionId, opts, showExamples, st) ==
    IF clearRequested(opts)
    THEN IF Truthy(sessionId)
         THEN Effects(<<>>, 1, <<>>,
                      <<"Cannot combine a session ID with --clear. Remove the ID to delete cached sessions.">>,
                      st)
         ELSE ClearSessions(opts, st)
    ELSE IF sessionId = Str(sClear) \/ sessionId = Str(sClean)
         THEN Effects(<<>>, 1, <<>>,
                      <<"Session cleanup now uses --clear. Run \"oracle session --clear --hours <n>\" instead.">>,
                      st)
    ELSE IF ~Truthy(sessionId)
         THEN Effects(<<StatusArgs(opts, showExamples)>>, 0, <<>>, <<>>, st)
    ELSE Effects(<<Call("attachSession", Hours(0), FALSE, 0, FALSE, sessionId)>>,
                 0, <<>>, <<>>, st)

InitSession ==
    /\ store \in Stores
    /\ storeBefore = store
    /\ sessArgs = <<>> /\ calls = <<>> /\ exitCode = 0 /\ stdout = <<>> /\ stderr = <<>>
    /\ ProbeIdle /\ NormIdle /\ QueryIdle

\* one `oracle session [id] [options]` invocation: the process runs the
\* handler once on the store it finds
handleSessionCommand ==
    /\ sessArgs = <<>>
    /\ \E sessionId \in SessionIdArgs, opts \in StatusOptions, showExamples \in BOOLEAN :
       \E eff \in {HandleSession(sessionId, opts, showExamples, store)} :
        /\ sessArgs' = <<[sessionId |-> sessionId, opts |-> opts,
                          showExamples |-> showExamples]>>
        /\ storeBefore' = store
        /\ store' = eff.store
        /\ calls' = eff.calls
        /\ exitCode' = eff.exitCode
        /\ stdout' = eff.stdout
        /\ stderr' = eff.stderr
        /\ UNCHANGED <<probeVars, normVars, queryVars>>

NextSession == handleSessionCommand
SpecSession == InitSession /\ [][NextSession]_vars

(***************************************************************************)
(* The oracle.browserQuery tool handler                                    *)
(***************************************************************************)
sNoTextOutput == <<"(","n","o"," ","t","e","x","t"," ","o","u","t","p","u","t",")">>
sMarkdown == <<"#"," ","H","i">>
sText     == <<"H","i">>
sDefault  == <<"D","e","f","a","u","l","t">>

\* the tool input after schema validation
QueryInputs ==
    [files : {-1} \cup 0..MaxFiles,       \* -1: files not given
     chromeProfile : {Undefined, Str(sDefault)},
     headless : Flags]

\* what runBrowserMode resolves to
BrowserResults ==
    [answerMarkdown : {Undefined, Str(<<>>), Str(sBlank), Str(sMarkdown)},
     answerText : {Undefined, Str(<<>>), Str(sText)}]

\* the attachments built from the resolved files
Attachments(input) ==
    IF input.files > 0 THEN [i \in 1..input.files |-> [path |-> i]] ELSE <<>>

\* the argument of runBrowserMode
BrowserRequest(input) ==
    [attachments |-> Attachments(input),
     config |-> [chromeProfile |-> input.chromeProfile, headless |-> input.headless],
     verbose |-> FALSE]

\* faulty variant: ?? in place of ||
AnswerTextNullish(result) ==
    IF result.answerMarkdown # Undefined THEN result.answerMarkdown.v
    ELSE IF result.answerText # Undefined THEN result.answerText.v
    ELSE sNoTextOutput
\* result.answerMarkdown || result.answerText || '(no text output)'
AnswerText(result) ==
    Or(Or(result.answerMarkdown, result.answerText), Str(sNoTextOutput)).v

\* the value the handler returns
ToolResponse(result) == [content |-> <<[type |-> "text", text |-> AnswerText(result)]>>]

InitQuery ==
    /\ qPc = "idle" /\ qInput = <<>> /\ qRequest = <<>> /\ qResult = <<>>
    /\ qResponse = <<>>
    /\ ProbeIdle /\ NormIdle /\ SessIdle

\* one call of the tool in which runBrowserMode resolves
browserQuery ==
    \E input \in QueryInputs, result \in BrowserResults :
        /\ qInput' = <<input>>
        /\ qRequest' = <<BrowserRequest(input)>>
        /\ qResult' = <<result>>
        /\ qResponse' = <<ToolResponse(result)>>
        /\ qPc' = "returned"
        /\ UNCHANGED <<probeVars, normVars, sessVars>>

\* one call of the tool in which runBrowserMode rejects: the handler rejects
browserQueryRejects ==
    \E input \in QueryInputs :
        /\ qInput' = <<input>>
        /\ qRequest' = <<BrowserRequest(input)>>
        /\ qResult' = <<>>
        /\ qResponse' = <<>>
        /\ qPc' = "rejected"
        /\ UNCHANGED <<probeVars, normVars, sessVars>>

NextQuery == browserQuery \/ browserQueryRejects
SpecQuery == InitQuery /\ [][NextQuery]_vars
(***************************************************************************)
(* Properties                                                              *)
(***************************************************************************)
\* the probe has run on domBefore
Probed == pc \in {"evaluated", "returned"}
\* the candidates (elements some selector matches) of d whose haystack contains
\* a keyword, in the order the candidates Set is iterated
MatchingCandidates(d) ==
    SelectSeq(Candidates(d), LAMBDA i : MatchesKeyword(Haystack(d[i])))
\* the on-state attributes of an element
HasOnState(el) ==
    \/ el.ariaPressed = Str(sTrue)
    \/ el.ariaChecked = Str(sTrue)
    \/ el.dataState.t = "string" /\ toLowerCase(el.dataState.v) \in ON_STATES

\* C1: whenever the element the probe selected carries an on-state attribute
\* (aria-pressed="true", aria-checked="true", or a data-state that lower-cases
\* into {on,true,checked,selected,active}), the probe returned 'already-on'
\* and called click() on no element.
C1_AlreadyOnNoClick ==
    (Probed /\ best # 0 /\ HasOnState(domBefore[best]))
        => /\ outcome.value.status = "already-on"
           /\ clicked = <<>>
           /\ dom = domBefore

C1_Witness ==
    /\ pc = "evaluated" /\ best # 0
    /\ domBefore[best].dataState = Str(sON)
    /\ domBefore[best].ariaPressed = Null
    /\ outcome.value.status = "already-on"

\* C2: whenever no element matched by a selector has a haystack containing a
\* keyword, the probe returned 'not-found', clicked nothing and left the
\* document as it was.
C2_NotFoundNoMutation ==
    (Probed /\ \A i \in DOMAIN domBefore :
                  (\E k \in DOMAIN SELECTORS : Matches(domBefore[i], SELECTORS[k]))
                      => ~MatchesKeyword(Haystack(domBefore[i])))
        => /\ outcome.value.status = "not-found"
           /\ best = 0
           /\ clicked = <<>>
           /\ dom = domBefore

C2_Witness ==
    /\ pc = "evaluated"
    /\ Len(domBefore) = 2 /\ Len(Candidates(domBefore)) = 1
    /\ \E i \in DOMAIN domBefore : domBefore[i].textContent = sSearch
    /\ outcome.value.status = "not-found"

\* C3: whenever exactly one candidate matches a keyword and it is off, the
\* probe clicked that element exactly once and returned 'toggled-on' with the
\* label taken from aria-label, else text content, else data-testid, and that
\* label is non-empty whenever one of the three is non-empty.
C3_ToggledOnWithLabel ==
    (Probed /\ Len(MatchingCandidates(domBefore)) = 1
            /\ ~HasOnState(domBefore[MatchingCandidates(domBefore)[1]]))
        => LET i  == MatchingCandidates(domBefore)[1]
               el == domBefore[i]
           IN  /\ outcome.value.status = "toggled-on"
               /\ clicked = <<i>>
               /\ outcome.value.label.t = "string"
               /\ outcome.value.label.v =
                     trim(IF Truthy(el.ariaLabel) THEN el.ariaLabel.v
                          ELSE IF el.textContent # <<>> THEN el.textContent
                          ELSE IF Truthy(el.testId) THEN el.testId.v
                          ELSE <<>>)
               /\ (\/ Truthy(el.ariaLabel) \/ el.textContent # <<>> \/ Truthy(el.testId))
                     => outcome.value.label.v # <<>>

\* C4: every run of the probe, also one in which a DOM query, a read or the
\* click throws, yields exactly one value with one of the four statuses and
\* lets no exception out of the script; a throw comes back as status 'error'
\* with the thrown value's message as a string, and only a throw does.
C4_AlwaysOneOutcome ==
    Probed =>
        /\ ~escaped
        /\ outcome.hasResult /\ outcome.value.t = "object"
        /\ outcome.value.status \in {"already-on", "toggled-on", "not-found", "error"}
        /\ raise.at = "query" => outcome.value.status = "error"
        /\ outcome.value.status = "error" =>
              /\ raise.at # "none"
              /\ outcome.value.message.t = "string"
              /\ outcome.value.message.v =
                    (IF raise.thrown.isError THEN raise.thrown.message
                     ELSE raise.thrown.string)
        /\ outcome.value.status # "error" => outcome.value.message = Undefined

C4_Witness ==
    /\ pc = "evaluated" /\ raise.at = "click" /\ ~raise.thrown.isError
    /\ clicked # <<>>
    /\ outcome.value.status = "error"
    /\ outcome.value.message = Str(sDenied)

\* C5: the --clear path calls deleteSessionsOlderThan once with the options'
\* hours and all unchanged; that call removes exactly the sessions older than
\* hours (every session when all is set) and the command prints exactly the
\* number removed.
C5_ClearDeletesOlder ==
    (calls # <<>> /\ calls[1].fn = "deleteSessionsOlderThan")
        => LET opts == sessArgs[1].opts
           IN  /\ Len(calls) = 1
               /\ calls[1].hours = Hours(opts.hours)
               /\ calls[1].includeAll = opts.all
               /\ store = IF opts.all THEN {}
                          ELSE {x \in storeBefore : ~(x.age > opts.hours)}
               /\ Len(stdout) = 1
               /\ stdout[1].deleted = Cardinality(storeBefore \ store)

C5_Witness ==
    /\ calls # <<>> /\ calls[1].fn = "deleteSessionsOlderThan"
    /\ ~sessArgs[1].opts.all
    /\ Cardinality(storeBefore) = 2 /\ Cardinality(store) = 1
    /\ stdout[1].deleted = 1

\* C6: whatever Runtime.evaluate resolved to (any of the four statuses, an
\* unrecognized status, a null or undefined value, no result at all),
\* ensureSearchEnabled can finish and has then called the logger exactly once.
C6_LogsExactlyOnce ==
    /\ pc = "evaluated" => ENABLED LogOutcome
    /\ pc = "returned" => Len(logged) = 1
    /\ pc # "returned" => logged = <<>>

C6_Witness ==
    /\ pc = "returned" /\ outcome.hasResult
    /\ outcome.value.status = "bogus"
    /\ Len(logged) = 1

\* C7: the tool's response holds exactly one text item; its text is
\* answerMarkdown when that is non-empty, else answerText when that is
\* non-empty, else the marker '(no text output)', and so is never empty.
C7_EmptyExtractionIsSuccess ==
    qPc = "returned" =>
        LET md   == qResult[1].answerMarkdown
            txt  == qResult[1].answerText
            item == qResponse[1].content
        IN  /\ Len(item) = 1
            /\ item[1].type = "text"
            /\ item[1].text # <<>>
            /\ item[1].text = IF md.t = "string" /\ md.v # <<>> THEN md.v
                              ELSE IF txt.t = "string" /\ txt.v # <<>> THEN txt.v
                              ELSE sNoTextOutput

C7_Witness ==
    /\ qPc = "returned"
    /\ qResult[1].answerMarkdown = Str(<<>>) /\ qResult[1].answerText = Undefined
    /\ qResponse[1].content[1].text = sNoTextOutput

\* C8: normalizing a normalized string gives the same string, and a
\* normalized string holds only a-z, 0-9 and single spaces between them.
C8_NormalizeIdempotent ==
    /\ nPc = "renormalized" => nOut = nIn
    /\ nPc \in {"normalized", "renormalized"} =>
          /\ \A i \in DOMAIN nOut : IsAlnum(nOut[i]) \/ nOut[i] = " "
          /\ \A i \in DOMAIN nOut :
                nOut[i] = " " => /\ 1 < i /\ i < Len(nOut)
                                 /\ nOut[i + 1] # " "

C8_Witness ==
    /\ nPc = "renormalized"
    /\ nOut = <<"a", " ", "z">>

\* C9 as stated: when several candidates match, the probe selects the first candidate, in the order the
\* candidates are iterated, whose haystack contains a keyword; it decides
\* from that element alone and neither inspects nor clicks any other.
C9_FirstMatchWins ==
    (Probed /\ Len(MatchingCandidates(domBefore)) >= 2)
        => LET first == MatchingCandidates(domBefore)[1]
           IN  /\ best = first
               /\ outcome.value.status =
                     IF HasOnState(domBefore[first]) THEN "already-on" ELSE "toggled-on"
               /\ Range(clicked) \subseteq {first} /\ Len(clicked) <= 1
               /\ inspected \subseteq {first}

\* C9 amended: the probe selects the first candidate that is an HTMLElement
\* and whose haystack contains a keyword (candidates that are not
\* HTMLElements are passed over, matching or not); it decides from that
\* element alone, clicks at most that element, once, and neither inspects
\* nor clicks any other; with no such candidate it returns 'not-found'.
C9_FirstHtmlMatchWins ==
    Probed =>
        LET html == SelectSeq(MatchingCandidates(domBefore),
                              LAMBDA i : domBefore[i].html)
        IN  IF html = <<>>
            THEN best = 0 /\ clicked = <<>> /\ inspected = {}
                 /\ outcome.value.status = "not-found"
            ELSE /\ best = html[1]
                 /\ outcome.value.status =
                       IF HasOnState(domBefore[html[1]]) THEN "already-on"
                       ELSE "toggled-on"
                 /\ clicked = IF HasOnState(domBefore[html[1]]) THEN <<>> ELSE <<html[1]>>
                 /\ inspected = {html[1]}

C9_Witness ==
    /\ pc = "evaluated"
    /\ Len(MatchingCandidates(domBefore)) = 2
    /\ \A i \in DOMAIN domBefore : domBefore[i].html
    /\ best = 2
    /\ outcome.value.status = "already-on"
    /\ ~HasOnState(domBefore[1])

\* C10: one invocation makes at most one call into deleteSessionsOlderThan,
\* showStatus and attachSession: none, with exit code 1 and the store
\* untouched, when --clear/--clean comes with a session ID or the ID is
\* 'clear' or 'clean'; only deleteSessionsOlderThan for --clear/--clean
\* without an ID; only showStatus (hours Infinity under --all) without ID and
\* without clear, leaving the store untouched; only attachSession with the
\* given ID otherwise.
C10_AtMostOneCall ==
    sessArgs # <<>> =>
        LET id    == sessArgs[1].sessionId
            opts  == sessArgs[1].opts
            clear == opts.clear = "true" \/ opts.clean = "true"
            hasId == id.t = "string" /\ id.v # <<>>
        IN  /\ Len(calls) <= 1
            /\ (clear /\ hasId) \/ (hasId /\ id.v \in {sClear, sClean})
                  => calls = <<>> /\ exitCode = 1 /\ store = storeBefore
            /\ (clear /\ ~hasId)
                  => Len(calls) = 1 /\ calls[1].fn = "deleteSessionsOlderThan"
                     /\ exitCode = 0
            /\ (~clear /\ ~hasId)
                  => /\ Len(calls) = 1 /\ calls[1].fn = "showStatus"
                     /\ calls[1].hours = IF opts.all THEN Infinity ELSE Hours(opts.hours)
                     /\ calls[1].includeAll = opts.all
                     /\ calls[1].limit = opts.limit
                     /\ store = storeBefore /\ exitCode = 0
            /\ (~clear /\ hasId /\ id.v \notin {sClear, sClean})
                  => /\ Len(calls) = 1 /\ calls[1].fn = "attachSession"
                     /\ calls[1].sessionId = id
                     /\ store = storeBefore /\ exitCode = 0

C10_Witness ==
    /\ sessArgs # <<>>
    /\ sessArgs[1].opts.clean = "true" /\ sessArgs[1].opts.clear = "undefined"
    /\ sessArgs[1].opts.all
    /\ sessArgs[1].sessionId = Str(sId)
    /\ calls = <<>> /\ exitCode = 1
    /\ Cardinality(store) = 2
====
